---------------------------- MODULE Spec2Model ----------------------------
(***************************************************************************)
(* Model of src/station_map.py: the station map pipeline                   *)
(*   collect_stations_from_iris -> group_arrays -> region selection ->     *)
(*   load_topography (try-chain) -> rendering calls.                       *)
(*                                                                         *)
(* Numbers.  Python floats are modelled as exact rationals <<n, d>> in     *)
(* lowest terms (d > 0), in degrees.  IEEE-754 rounding is not modelled:   *)
(* every numeric statement below is a statement of exact arithmetic.       *)
(*                                                                         *)
(* Strings.  A station code is a sequence of one-character strings.  The   *)
(* token "sup2" stands for the single character U+00B2 (SUPERSCRIPT TWO),  *)
(* a non-ASCII character for which str.isdigit() is True.                  *)
(*                                                                         *)
(* Dicts.  A Python dict is a sequence of entries in insertion order with  *)
(* pairwise distinct keys.                                                 *)
(***************************************************************************)
EXTENDS Integers, Sequences, FiniteSets, TLC

VARIABLES
    MANUAL_REGION,   \* config, line 46: None or [lon_min, lon_max, lat_min, lat_max]
    SAVE,            \* config, line 40
    pc,              \* position of main()
    infra_raw,       \* main: result of collect_stations_from_iris (line 224)
    groups,          \* group_arrays: local dict array_id -> lats/lons (line 122)
    infra,           \* main: result of group_arrays (line 229)
    region,          \* main: region in use (lines 233/241)
    region_args,     \* arguments of each compute_region_from_points call
    res_idx,         \* load_topography: position of the for loop in TOPO_PREF
    attempts,        \* load_earth_relief calls made so far, with their outcome
    last_err,        \* load_topography: last_err (line 169/174)
    grid,            \* main: grid returned by load_topography (line 247)
    caught,          \* main: exception bound to e at line 256
    plot_idx,        \* main: position of the for loop of line 263
    calls,           \* renderer calls that completed, in order
    warnings,        \* console warnings printed (line 257)
    legend_file,     \* state of the temporary legend file
    upstream_failures, \* failures raised by the FDSN client so far
    render_failures,   \* failures raised by renderer calls so far
    error            \* exception that left main(), None while there is none

vars == <<MANUAL_REGION, SAVE, pc, infra_raw, groups, infra, region, region_args,
          res_idx, attempts, last_err, grid, caught, plot_idx, calls, warnings,
          legend_file, upstream_failures, render_failures, error>>

---------------------------------------------------------------------------
(* Bounds of the model *)

MaxCodeLen == 4
MaxStations == 3
MaxPoints == 3

---------------------------------------------------------------------------
(* Exact rational arithmetic standing for Python float arithmetic *)

Abs(x) == IF x < 0 THEN -x ELSE x

RECURSIVE GCD(_, _)
GCD(a, b) == IF b = 0 THEN a ELSE GCD(b, a % b)

Rat(n, d) ==
    LET g == GCD(Abs(n), Abs(d))
        s == IF d < 0 THEN -1 ELSE 1
    IN  <<(s * n) \div g, (s * d) \div g>>

\* least common denominator of two rationals
LCD(a, b) == (a[2] \div GCD(a[2], b[2])) * b[2]
\* numerator of a over the denominator l
Over(a, l) == a[1] * (l \div a[2])

RatAdd(a, b) == LET l == LCD(a, b) IN Rat(Over(a, l) + Over(b, l), l)
RatSub(a, b) == LET l == LCD(a, b) IN Rat(Over(a, l) - Over(b, l), l)
RatMul(a, b) ==
    LET g == GCD(Abs(a[1]), b[2])
        h == GCD(Abs(b[1]), a[2])
    IN  Rat((a[1] \div g) * (b[1] \div h), (a[2] \div h) * (b[2] \div g))
RatLe(a, b) == LET l == LCD(a, b) IN Over(a, l) <= Over(b, l)
RatLt(a, b) == LET l == LCD(a, b) IN Over(a, l) < Over(b, l)
RatMax(a, b) == IF RatLt(a, b) THEN b ELSE a

\* builtin min()/max() of a non-empty list
RECURSIVE ListMin(_)
ListMin(s) ==
    IF Len(s) = 1 THEN s[1]
    ELSE LET m == ListMin(Tail(s)) IN IF RatLt(m, s[1]) THEN m ELSE s[1]

RECURSIVE ListMax(_)
ListMax(s) ==
    IF Len(s) = 1 THEN s[1]
    ELSE LET m == ListMax(Tail(s)) IN IF RatLt(s[1], m) THEN m ELSE s[1]

RECURSIVE ListSum(_)
ListSum(s) == IF s = <<>> THEN Rat(0, 1) ELSE RatAdd(s[1], ListSum(Tail(s)))

\* A mean that drops the last sample (off-by-one in the accumulation).
np_mean_DropLast(s) ==
    IF Len(s) = 1 THEN s[1]
    ELSE RatMul(ListSum(SubSeq(s, 1, Len(s) - 1)), Rat(1, Len(s) - 1))

\* np.mean of a non-empty list, lines 138-139
np_mean(s) == RatMul(ListSum(s), Rat(1, Len(s)))

---------------------------------------------------------------------------
(* Characters and strings *)

\* characters c with c.isdigit() True: the ASCII digits and other Unicode digits
DigitChars == {"0", "1", "2", "3", "4", "5", "6", "7", "8", "9", "sup2"}

isdigit(c) == c \in DigitChars

\* code point of a character (string comparison in sorted(), line 263)
ord(c) ==
    CASE c = "0" -> 48 [] c = "1" -> 49 [] c = "2" -> 50 [] c = "3" -> 51
      [] c = "4" -> 52 [] c = "A" -> 65 [] c = "I" -> 73 [] c = "S" -> 83
      [] c = "i" -> 105 [] c = "s" -> 115 [] c = "sup2" -> 178

startswith(s, p) == Len(s) >= Len(p) /\ SubSeq(s, 1, Len(p)) = p

\* the slice s[:n]
Slice(s, n) == SubSeq(s, 1, IF Len(s) < n THEN Len(s) ELSE n)

\* a < b for Python strings
RECURSIVE StrLess(_, _)
StrLess(a, b) ==
    IF b = <<>> THEN FALSE
    ELSE IF a = <<>> THEN TRUE
    ELSE IF a[1] = b[1] THEN StrLess(Tail(a), Tail(b))
    ELSE ord(a[1]) < ord(b[1])

IS == <<"I", "S">>

---------------------------------------------------------------------------
(* group_arrays, lines 112-141 *)

\* The rule without the digit test on the third character.
array_id_NoDigitTest(sta) ==
    IF Len(sta) >= 3 /\ startswith(sta, IS) THEN Slice(sta, 3) ELSE sta

\* lines 125-129: the array identifier of a station code
array_id(sta) ==
    IF Len(sta) >= 3 /\ startswith(sta, IS) /\ isdigit(sta[3])
    THEN Slice(sta, 3)
    ELSE sta

KeyIndex(d, k) == CHOOSE i \in 1..Len(d) : d[i].key = k

\* lines 131-133: one iteration of the first loop
AddStation(g, sta) ==
    LET id == array_id(sta.code) IN
    IF \E i \in 1..Len(g) : g[i].key = id
    THEN LET i == KeyIndex(g, id) IN
         [g EXCEPT ![i] = [key |-> id,
                           lats |-> Append(g[i].lats, sta.lat),
                           lons |-> Append(g[i].lons, sta.lon)]]
    ELSE Append(g, [key |-> id, lats |-> <<sta.lat>>, lons |-> <<sta.lon>>])

\* lines 122-133: the dict groups after the first loop
RECURSIVE BuildGroups(_)
BuildGroups(raw) ==
    IF raw = <<>> THEN <<>>
    ELSE AddStation(BuildGroups(SubSeq(raw, 1, Len(raw) - 1)), raw[Len(raw)])

\* lines 135-141: the dict grouped
Centroids(g) ==
    [i \in 1..Len(g) |->
        [key |-> g[i].key, lat |-> np_mean(g[i].lats), lon |-> np_mean(g[i].lons)]]

group_arrays(raw) == Centroids(BuildGroups(raw))

---------------------------------------------------------------------------
(* compute_region_from_points, lines 144-161 *)

pad_min_default == Rat(1, 100)     \* pad_min=0.01, line 144
pad_frac_default == Rat(1, 100)    \* pad_frac=0.01, line 144
PAD_FLOOR == Rat(2, 100)           \* the literal 0.02 of lines 158-159

NoRegion == <<>>

\* The pad without the absolute floor.
axis_pad_NoFloor(spread, pad_min, pad_frac) ==
    RatMul(RatMax(spread, pad_min), pad_frac)

\* lines 156-159: the pad of one axis, from the spread of its coordinates
axis_pad(spread, pad_min, pad_frac) ==
    RatMax(RatMul(RatMax(spread, pad_min), pad_frac), PAD_FLOOR)

\* lines 151-161, for non-empty lists
compute_region_from_points(lats, lons, pad_min, pad_frac) ==
    LET lat_min == ListMin(lats)
        lat_max == ListMax(lats)
        lon_min == ListMin(lons)
        lon_max == ListMax(lons)
        lat_pad == axis_pad(RatSub(lat_max, lat_min), pad_min, pad_frac)
        lon_pad == axis_pad(RatSub(lon_max, lon_min), pad_min, pad_frac)
    IN  <<RatSub(lon_min, lon_pad), RatAdd(lon_max, lon_pad),
          RatSub(lat_min, lat_pad), RatAdd(lat_max, lat_pad)>>

---------------------------------------------------------------------------
(* Configuration and the environment of a run *)

TOPO_PREF == <<"01s", "03s", "15s">>     \* line 65

\* line 46: [-116.075, -116.033, 37.17, 37.23]
ManualBox == <<Rat(-116075, 1000), Rat(-116033, 1000), Rat(3717, 100), Rat(3723, 100)>>

EXP_LAT == Rat(372212, 10000)        \* line 35
EXP_LON == Rat(-1160609, 10000)      \* line 36

Station(code, lat, lon) == [code |-> code, lat |-> lat, lon |-> lon, network |-> "SN"]

\* Stations the metadata source may hold; a query returns any of them, in this order.
Catalogue ==
    << Station(<<"I", "S", "3", "0", "1">>, Rat(3720, 100), Rat(-11605, 100)),
       Station(<<"I", "S", "3", "0", "2">>, Rat(3721, 100), Rat(-11604, 100)),
       Station(<<"I", "S", "4", "0", "1">>, Rat(3722, 100), Rat(-11603, 100)),
       Station(<<"I", "S", "A">>, Rat(3719, 100), Rat(-11606, 100)) >>

RECURSIVE Pick(_, _)
Pick(s, idx) ==
    IF s = <<>> THEN <<>>
    ELSE LET rest == Pick(SubSeq(s, 1, Len(s) - 1), idx)
         IN  IF Len(s) \in idx THEN Append(rest, s[Len(s)]) ELSE rest

Inventories == {Pick(Catalogue, idx) : idx \in SUBSET (1..Len(Catalogue))}

\* Exceptions: type, message, and the text of the underlying error it embeds.
Exc(type, msg, arg) == [type |-> type, msg |-> msg, arg |-> arg]
NoExc == Exc("None", "", "")
NoGrid == [res |-> "None", region |-> NoRegion]

\* str(e) of an exception
Str(e) == e.arg

\* failure of load_earth_relief at one resolution
LoadError(res) == Exc("GMTError", "earth_relief", res)
\* failure raised by a renderer call
RenderError(fn) == Exc("GMTError", "figure", fn)

Call(fn, reg) == [fn |-> fn, region |-> reg]

\* sorted(d.items()) of line 263: entries by ascending key
RECURSIVE SortedItems(_)
SortedItems(d) ==
    IF d = <<>> THEN <<>>
    ELSE LET m == CHOOSE i \in 1..Len(d) :
                     \A j \in 1..Len(d) : j = i \/ StrLess(d[i].key, d[j].key)
             rest == [k \in 1..(Len(d) - 1) |-> IF k < m THEN d[k] ELSE d[k + 1]]
         IN  <<d[m]>> \o SortedItems(rest)

---------------------------------------------------------------------------
(* main(), lines 210-307, and the helpers it calls *)

Init ==
    /\ MANUAL_REGION \in {NoRegion, ManualBox}
    /\ SAVE \in BOOLEAN
    /\ pc = "client"
    /\ infra_raw = <<>>
    /\ groups = <<>>
    /\ infra = <<>>
    /\ region = NoRegion
    /\ region_args = <<>>
    /\ res_idx = 1
    /\ attempts = <<>>
    /\ last_err = NoExc
    /\ grid = NoGrid
    /\ caught = NoExc
    /\ plot_idx = 1
    /\ calls = <<>>
    /\ warnings = <<>>
    /\ legend_file = "absent"
    /\ upstream_failures = <<>>
    /\ render_failures = <<>>
    /\ error = NoExc

config == <<MANUAL_REGION, SAVE>>
stations_state == <<infra_raw, groups, infra>>
region_state == <<region, region_args>>
topo_state == <<res_idx, attempts, last_err, grid>>
figure_state == <<plot_idx, calls, warnings, legend_file, render_failures>>

\* an exception leaves main(): the run ends with it
Raise(e) == pc' = "aborted" /\ error' = e

\* a renderer call raises outside any try block
RenderRaise(fn) ==
    /\ render_failures' = Append(render_failures, fn)
    /\ Raise(RenderError(fn))

\* line 84: client = Client(source), outside the try block
ClientSetup ==
    /\ pc = "client"
    /\ \E ok \in BOOLEAN :
         IF ok
         THEN /\ pc' = "query"
              /\ UNCHANGED <<upstream_failures, error>>
         ELSE /\ upstream_failures' = Append(upstream_failures, "Client")
              /\ Raise(Exc("FDSNException", "", "Client"))
    /\ UNCHANGED <<config, stations_state, region_state, topo_state, caught,
                   plot_idx, calls, warnings, legend_file, render_failures>>

\* lines 86-109: the query, wrapped on failure; the inventory as a dict
GetStations ==
    /\ pc = "query"
    /\ \/ \E inv \in Inventories :
            /\ infra_raw' = inv
            /\ pc' = "check"
            /\ UNCHANGED <<upstream_failures, error>>
       \/ /\ upstream_failures' = Append(upstream_failures, "get_stations")
          /\ Raise(Exc("RuntimeError", "FDSN get_stations failed: ", "get_stations"))
          /\ UNCHANGED infra_raw
    /\ UNCHANGED <<config, groups, infra, region_state, topo_state, caught,
                   plot_idx, calls, warnings, legend_file, render_failures>>

\* The run without the emptiness test of lines 225-226.
CheckStations_NoTest ==
    /\ pc = "check"
    /\ pc' = "group"
    /\ UNCHANGED <<config, stations_state, region_state, topo_state, caught,
                   figure_state, upstream_failures, error>>

\* lines 225-226
CheckStations ==
    /\ pc = "check"
    /\ IF infra_raw = <<>>
       THEN Raise(Exc("RuntimeError", "No SN.IS* stations found from IRIS query.", ""))
       ELSE pc' = "group" /\ UNCHANGED error
    /\ UNCHANGED <<config, stations_state, region_state, topo_state, caught,
                   figure_state, upstream_failures>>

\* line 229: infra = group_arrays(infra_raw)
GroupStep ==
    /\ pc = "group"
    /\ groups' = BuildGroups(infra_raw)
    /\ infra' = group_arrays(infra_raw)
    /\ pc' = "region"
    /\ UNCHANGED <<config, infra_raw, region_state, topo_state, caught,
                   figure_state, upstream_failures, error>>

all_lats == [i \in 1..Len(infra) |-> infra[i].lat]     \* line 235
all_lons == [i \in 1..Len(infra) |-> infra[i].lon]     \* line 236

\* lines 235-241: the auto-fit branch; min() of an empty list raises ValueError
AutoFit ==
    /\ region_args' = Append(region_args, [lats |-> all_lats, lons |-> all_lons])
    /\ IF all_lats = <<>>
       THEN /\ Raise(Exc("ValueError", "min() arg is an empty sequence", ""))
            /\ UNCHANGED region
       ELSE /\ region' = compute_region_from_points(all_lats, all_lons,
                                                   pad_min_default, pad_frac_default)
            /\ pc' = "topo"
            /\ UNCHANGED error

\* Region selection that fits the region to the stations whatever the override.
SelectRegion_IgnoreOverride ==
    /\ pc = "region"
    /\ AutoFit
    /\ UNCHANGED <<config, stations_state, topo_state, caught, figure_state,
                   upstream_failures>>

\* lines 232-243
SelectRegion ==
    /\ pc = "region"
    /\ IF MANUAL_REGION # NoRegion
       THEN /\ region' = MANUAL_REGION
            /\ pc' = "topo"
            /\ UNCHANGED <<region_args, error>>
       ELSE AutoFit
    /\ UNCHANGED <<config, stations_state, topo_state, caught, figure_state,
                   upstream_failures>>

---------------------------------------------------------------------------
(* load_topography, lines 164-176, called at line 247 inside the try block *)

\* An attempt that stays on the same resolution after a failure.
LoadAttempt_Retry ==
    /\ pc = "topo"
    /\ res_idx <= Len(TOPO_PREF)
    /\ \E ok \in BOOLEAN :
         LET res == TOPO_PREF[res_idx] IN
         /\ attempts' = Append(attempts, [res |-> res, region |-> region, ok |-> ok])
         /\ IF ok
            THEN /\ grid' = [res |-> res, region |-> region]
                 /\ pc' = "grdimage"
                 /\ UNCHANGED <<res_idx, last_err>>
            ELSE /\ last_err' = LoadError(res)
                 /\ res_idx' = IF Len(attempts) < Len(TOPO_PREF) THEN res_idx
                               ELSE res_idx + 1
                 /\ UNCHANGED <<grid, pc>>
    /\ UNCHANGED <<config, stations_state, region_state, caught, figure_state,
                   upstream_failures, error>>

\* An attempt that keeps the first failure instead of the last.
LoadAttempt_FirstError ==
    /\ pc = "topo"
    /\ res_idx <= Len(TOPO_PREF)
    /\ \E ok \in BOOLEAN :
         LET res == TOPO_PREF[res_idx] IN
         /\ attempts' = Append(attempts, [res |-> res, region |-> region, ok |-> ok])
         /\ IF ok
            THEN /\ grid' = [res |-> res, region |-> region]
                 /\ pc' = "grdimage"
                 /\ UNCHANGED <<res_idx, last_err>>
            ELSE /\ last_err' = IF last_err = NoExc THEN LoadError(res) ELSE last_err
                 /\ res_idx' = res_idx + 1
                 /\ UNCHANGED <<grid, pc>>
    /\ UNCHANGED <<config, stations_state, region_state, caught, figure_state,
                   upstream_failures, error>>

\* lines 170-175: one iteration of the for loop
LoadAttempt ==
    /\ pc = "topo"
    /\ res_idx <= Len(TOPO_PREF)
    /\ \E ok \in BOOLEAN :
         LET res == TOPO_PREF[res_idx] IN
         /\ attempts' = Append(attempts, [res |-> res, region |-> region, ok |-> ok])
         /\ IF ok
            THEN /\ grid' = [res |-> res, region |-> region]
                 /\ pc' = "grdimage"
                 /\ UNCHANGED <<res_idx, last_err>>
            ELSE /\ last_err' = LoadError(res)
                 /\ res_idx' = res_idx + 1
                 /\ UNCHANGED <<grid, pc>>
    /\ UNCHANGED <<config, stations_state, region_state, caught, figure_state,
                   upstream_failures, error>>

\* line 176, caught at line 256
LoadRaise ==
    /\ pc = "topo"
    /\ res_idx > Len(TOPO_PREF)
    /\ caught' = Exc("RuntimeError",
                     "Unable to load earth_relief for region. Last error: ",
                     Str(last_err))
    /\ pc' = "fallback"
    /\ UNCHANGED <<config, stations_state, region_state, topo_state, figure_state,
                   upstream_failures, error>>

---------------------------------------------------------------------------
(* main(): the figure, lines 245-307 *)

\* lines 248-255, inside the try block: a failure is caught at line 256
GrdImage ==
    /\ pc = "grdimage"
    /\ \E ok \in BOOLEAN :
         IF ok
         THEN /\ calls' = Append(calls, Call("grdimage", region))
              /\ pc' = "plot"
              /\ UNCHANGED <<caught, render_failures>>
         ELSE /\ render_failures' = Append(render_failures, "grdimage")
              /\ caught' = RenderError("grdimage")
              /\ pc' = "fallback"
              /\ UNCHANGED calls
    /\ UNCHANGED <<config, stations_state, region_state, topo_state, plot_idx,
                   warnings, legend_file, upstream_failures, error>>

\* A handler that draws the coastline without printing the warning.
Fallback_Silent ==
    /\ pc = "fallback"
    /\ calls' = calls \o <<Call("basemap", region), Call("coast", NoRegion)>>
    /\ pc' = "plot"
    /\ UNCHANGED <<config, stations_state, region_state, topo_state, caught, plot_idx,
                   warnings, legend_file, render_failures, upstream_failures, error>>

\* lines 256-260: the except handler
Fallback ==
    /\ pc = "fallback"
    /\ warnings' = Append(warnings, [msg |-> "[WARN] Topo load failed: ", e |-> caught])
    /\ \E out \in {"ok", "basemap", "coast"} :
         IF out = "ok"
         THEN /\ calls' = calls \o <<Call("basemap", region), Call("coast", NoRegion)>>
              /\ pc' = "plot"
              /\ UNCHANGED <<render_failures, error>>
         ELSE /\ calls' = IF out = "coast" THEN Append(calls, Call("basemap", region))
                          ELSE calls
              /\ RenderRaise(out)
    /\ UNCHANGED <<config, stations_state, region_state, topo_state, caught, plot_idx,
                   legend_file, upstream_failures>>

\* lines 263-276: one iteration of the loop over sorted(infra.items())
PlotArray ==
    /\ pc = "plot"
    /\ plot_idx <= Len(infra)
    /\ \E ok \in BOOLEAN :
         IF ok
         THEN /\ calls' = Append(calls, [fn |-> "plot", region |-> NoRegion,
                                         x |-> SortedItems(infra)[plot_idx].lon,
                                         y |-> SortedItems(infra)[plot_idx].lat])
              /\ plot_idx' = plot_idx + 1
              /\ UNCHANGED <<pc, render_failures, error>>
         ELSE /\ RenderRaise("plot")
              /\ UNCHANGED <<calls, plot_idx>>
    /\ UNCHANGED <<config, stations_state, region_state, topo_state, caught,
                   warnings, legend_file, upstream_failures>>

\* lines 279-280: the epicenter, after the loop
PlotEpicenter ==
    /\ pc = "plot"
    /\ plot_idx > Len(infra)
    /\ \E ok \in BOOLEAN :
         IF ok
         THEN /\ calls' = Append(calls, [fn |-> "plot", region |-> NoRegion,
                                         x |-> EXP_LON, y |-> EXP_LAT])
              /\ pc' = "scale"
              /\ UNCHANGED <<render_failures, error>>
         ELSE /\ RenderRaise("plot")
              /\ UNCHANGED calls
    /\ UNCHANGED <<config, stations_state, region_state, topo_state, caught,
                   plot_idx, warnings, legend_file, upstream_failures>>

\* line 292
ScaleBar ==
    /\ pc = "scale"
    /\ \E ok \in BOOLEAN :
         IF ok
         THEN /\ calls' = Append(calls, Call("basemap_scale", NoRegion))
              /\ pc' = "legend"
              /\ UNCHANGED <<render_failures, error>>
         ELSE /\ RenderRaise("basemap_scale")
              /\ UNCHANGED calls
    /\ UNCHANGED <<config, stations_state, region_state, topo_state, caught,
                   plot_idx, warnings, legend_file, upstream_failures>>

\* lines 294-299: the legend file is written, used, and removed (OSError ignored)
Legend ==
    /\ pc = "legend"
    /\ \E out \in {"ok", "legend", "remove"} :
         IF out = "legend"
         THEN /\ legend_file' = "left"
              /\ RenderRaise("legend")
              /\ UNCHANGED calls
         ELSE /\ calls' = Append(calls, Call("legend", NoRegion))
              /\ legend_file' = IF out = "remove" THEN "left" ELSE "removed"
              /\ pc' = "show"
              /\ UNCHANGED <<render_failures, error>>
    /\ UNCHANGED <<config, stations_state, region_state, topo_state, caught,
                   plot_idx, warnings, upstream_failures>>

\* line 302
Show ==
    /\ pc = "show"
    /\ \E ok \in BOOLEAN :
         IF ok
         THEN /\ calls' = Append(calls, Call("show", NoRegion))
              /\ pc' = IF SAVE THEN "save" ELSE "done"
              /\ UNCHANGED <<render_failures, error>>
         ELSE /\ RenderRaise("show")
              /\ UNCHANGED calls
    /\ UNCHANGED <<config, stations_state, region_state, topo_state, caught,
                   plot_idx, warnings, legend_file, upstream_failures>>

\* lines 303-307
Save ==
    /\ pc = "save"
    /\ \E ok \in BOOLEAN :
         IF ok
         THEN /\ calls' = Append(calls, Call("savefig", NoRegion))
              /\ pc' = "done"
              /\ UNCHANGED <<render_failures, error>>
         ELSE /\ RenderRaise("savefig")
              /\ UNCHANGED calls
    /\ UNCHANGED <<config, stations_state, region_state, topo_state, caught,
                   plot_idx, warnings, legend_file, upstream_failures>>

Next ==
    \/ ClientSetup \/ GetStations \/ CheckStations \/ GroupStep \/ SelectRegion
    \/ LoadAttempt \/ LoadRaise \/ GrdImage \/ Fallback
    \/ PlotArray \/ PlotEpicenter \/ ScaleBar \/ Legend \/ Show \/ Save

Spec == Init /\ [][Next]_vars

---------------------------------------------------------------------------
(* The pure helpers on their own: the inputs are drawn by the initial state *)

Idle(p) ==
    /\ MANUAL_REGION = NoRegion
    /\ SAVE = FALSE
    /\ pc = p
    /\ groups = <<>>
    /\ region = NoRegion
    /\ region_args = <<>>
    /\ res_idx = 1
    /\ attempts = <<>>
    /\ last_err = NoExc
    /\ grid = NoGrid
    /\ caught = NoExc
    /\ plot_idx = 1
    /\ calls = <<>>
    /\ warnings = <<>>
    /\ legend_file = "absent"
    /\ upstream_failures = <<>>
    /\ render_failures = <<>>
    /\ error = NoExc

\* sequences over S of length lo..hi
SeqsOf(S, lo, hi) == UNION {[1..n -> S] : n \in lo..hi}

Alphabet == {"I", "S", "s", "3", "A", "sup2"}
Codes == SeqsOf(Alphabet, 1, MaxCodeLen)

\* a second station, of array IS3, at another position
Companion == Station(<<"I", "S", "3", "1">>, Rat(3721, 100), Rat(-11604, 100))
Probe(code) == Station(code, Rat(3720, 100), Rat(-11605, 100))

\* group_arrays on one station of any code, alone or beside the companion
InitClassify ==
    /\ Idle("group")
    /\ infra = <<>>
    /\ \E code \in Codes :
         infra_raw \in {<<Probe(code)>>} \cup
                       (IF code = Companion.code THEN {}
                        ELSE {<<Probe(code), Companion>>, <<Companion, Probe(code)>>})

SpecClassify == InitClassify /\ [][GroupStep]_vars

GroupCodes ==
    { <<"I", "S", "3", "0", "1">>, <<"I", "S", "3", "0", "2">>,
      <<"I", "S", "4", "0", "1">>, <<"I", "S", "4">>, <<"I", "S", "A", "1">> }

Positions ==
    { <<Rat(3720, 100), Rat(-11605, 100)>>, <<Rat(3721, 100), Rat(-11604, 100)>>,
      <<Rat(3722, 100), Rat(-11603, 100)>> }

\* group_arrays on 1..MaxStations stations with distinct codes
InitGroup ==
    /\ Idle("group")
    /\ infra = <<>>
    /\ \E n \in 1..MaxStations :
         \E cs \in [1..n -> GroupCodes], ps \in [1..n -> Positions] :
            /\ \A i, j \in 1..n : i # j => cs[i] # cs[j]
            /\ infra_raw = [i \in 1..n |-> Station(cs[i], ps[i][1], ps[i][2])]

SpecGroup == InitGroup /\ [][GroupStep]_vars

RegionLats == {Rat(3720, 100), Rat(37205, 1000), Rat(3721, 100), Rat(4000, 100)}
RegionLons == {Rat(-11605, 100), Rat(-11604, 100), Rat(-11300, 100)}
PointKeys == <<"1", "2", "3", "4", "5", "6", "7", "8", "9">>

\* auto-fit on 1..MaxPoints points, repeated points included
InitRegion ==
    /\ Idle("region")
    /\ infra_raw = <<>>
    /\ \E n \in 1..MaxPoints :
         \E la \in [1..n -> RegionLats], lo \in [1..n -> RegionLons] :
            infra = [i \in 1..n |-> [key |-> <<"I", "S", PointKeys[i]>>,
                                     lat |-> la[i], lon |-> lo[i]]]

SpecRegion == InitRegion /\ [][SelectRegion]_vars

---------------------------------------------------------------------------
(* Properties of group_arrays *)

\* the three conditions of the array-prefix rule, on the characters of a code
MatchesRule(code) ==
    /\ Len(code) >= 3
    /\ code[1] = "I"
    /\ code[2] = "S"
    /\ code[3] \in DigitChars

FirstThree(code) == [i \in 1..(IF Len(code) < 3 THEN Len(code) ELSE 3) |-> code[i]]

\* The array identifiers under which station i of the input was filed: the keys
\* of the groups that hold its latitude (the probe and its companion differ in it).
GroupKeysOf(i) ==
    {groups[k].key : k \in {k \in 1..Len(groups) :
        \E m \in 1..Len(groups[k].lats) : groups[k].lats[m] = infra_raw[i].lat}}

Grouped == pc = "region"

\* C1 as stated: a code is grouped under its first three characters if and only
\* if it has length >= 3, starts with "IS" and has a digit as third character;
\* any other code is grouped under its own full code.
C1_AsStated ==
    Grouped =>
        \A i \in 1..Len(infra_raw) :
            LET code == infra_raw[i].code IN
            /\ GroupKeysOf(i) = {FirstThree(code)} <=> MatchesRule(code)
            /\ ~MatchesRule(code) => GroupKeysOf(i) = {code}

\* C1 amended: a code that has length >= 3, starts with "IS" and has a digit
\* (str.isdigit) as third character is grouped under its first three characters,
\* any other code under its own full code; hence the identifier equals the first
\* three characters if and only if the code matches the rule or has length <= 3.
C1_PrefixRule ==
    Grouped =>
        \A i \in 1..Len(infra_raw) :
            LET code == infra_raw[i].code IN
            /\ MatchesRule(code) => GroupKeysOf(i) = {FirstThree(code)}
            /\ ~MatchesRule(code) => GroupKeysOf(i) = {code}
            /\ GroupKeysOf(i) = {FirstThree(code)}
                   <=> (MatchesRule(code) \/ Len(code) <= 3)

\* a four-character code with a non-ASCII digit, filed beside the companion
C1_Witness ==
    /\ Grouped
    /\ Len(infra_raw) = 2
    /\ infra_raw[2].code = <<"I", "S", "sup2", "A">>
    /\ GroupKeysOf(2) = {<<"I", "S", "sup2">>}
    /\ Len(groups) = 2

RECURSIVE DeviationSum(_, _)
DeviationSum(s, c) ==
    IF s = <<>> THEN Rat(0, 1)
    ELSE RatAdd(RatSub(s[1], c), DeviationSum(Tail(s), c))

\* the entries of s at the indices in idx, in order
RECURSIVE Restrict(_, _)
Restrict(s, idx) ==
    IF s = <<>> THEN <<>>
    ELSE LET rest == Restrict(SubSeq(s, 1, Len(s) - 1), idx)
         IN  IF Len(s) \in idx THEN Append(rest, s[Len(s)]) ELSE rest

InputLats == [i \in 1..Len(infra_raw) |-> infra_raw[i].lat]
InputLons == [i \in 1..Len(infra_raw) |-> infra_raw[i].lon]

\* f files every station under one group and the groups hold exactly what f files
IsPartition(f) ==
    \A k \in 1..Len(groups) :
        LET members == {i \in 1..Len(infra_raw) : f[i] = k} IN
        /\ members # {}
        /\ groups[k].lats = Restrict(InputLats, members)
        /\ groups[k].lons = Restrict(InputLons, members)

IsMeanOf(c, s) ==
    /\ DeviationSum(s, c) = Rat(0, 1)
    /\ \E i \in 1..Len(s) : RatLe(s[i], c)
    /\ \E i \in 1..Len(s) : RatLe(c, s[i])
    /\ Len(s) = 1 => c = s[1]

Entries(d) == {d[i] : i \in 1..Len(d)}

Reordered(raw, p) == [i \in 1..Len(raw) |-> raw[p[i]]]

---------------------------------------------------------------------------
(* Properties of compute_region_from_points *)

MIN_SPAN == Rat(1, 100)
PAD_FRACTION == Rat(1, 100)

Lats == {infra[i].lat : i \in 1..Len(infra)}
Lons == {infra[i].lon : i \in 1..Len(infra)}
Least(S) == CHOOSE x \in S : \A y \in S : RatLe(x, y)
Greatest(S) == CHOOSE x \in S : \A y \in S : RatLe(y, x)

\* max(max(spread, MIN_SPAN) * PAD_FRACTION, PAD_FLOOR) of a set of coordinates
ExpectedPad(S) ==
    LET spread == RatSub(Greatest(S), Least(S))
        span == IF RatLt(spread, MIN_SPAN) THEN MIN_SPAN ELSE spread
        frac == RatMul(span, PAD_FRACTION)
    IN  IF RatLt(frac, PAD_FLOOR) THEN PAD_FLOOR ELSE frac

Fitted == pc = "topo" /\ region_args # <<>>

\* C2: the auto-fit region strictly contains every point on both axes; each edge
\* lies beyond the extreme coordinate by max(max(spread, MIN_SPAN) * PAD_FRACTION,
\* PAD_FLOOR), which is never below the floor; lon_min < lon_max, lat_min < lat_max.
C2_RegionContainsPoints ==
    Fitted =>
        /\ Len(region) = 4
        /\ \A x \in Lons : RatLt(region[1], x) /\ RatLt(x, region[2])
        /\ \A y \in Lats : RatLt(region[3], y) /\ RatLt(y, region[4])
        /\ RatSub(Least(Lons), region[1]) = ExpectedPad(Lons)
        /\ RatSub(region[2], Greatest(Lons)) = ExpectedPad(Lons)
        /\ RatSub(Least(Lats), region[3]) = ExpectedPad(Lats)
        /\ RatSub(region[4], Greatest(Lats)) = ExpectedPad(Lats)
        /\ RatLe(PAD_FLOOR, RatSub(Least(Lons), region[1]))
        /\ RatLe(PAD_FLOOR, RatSub(Least(Lats), region[3]))
        /\ RatLt(region[1], region[2])
        /\ RatLt(region[3], region[4])

\* the same point twice (zero spread) on one axis, a spread over 2 degrees on the
\* other: the pad is the floor on the first and the fraction on the second
C2_Witness ==
    /\ Fitted
    /\ Len(infra) = 2
    /\ infra[1].lon = infra[2].lon
    /\ RatSub(region[2], region[1]) = Rat(4, 100)
    /\ RatSub(Greatest(Lats), Least(Lats)) = Rat(280, 100)
    /\ RatSub(region[4], Greatest(Lats)) = Rat(28, 1000)

---------------------------------------------------------------------------
(* Properties of a run of main() *)

AggregateMsg == "Unable to load earth_relief for region. Last error: "
QueryFailedMsg == "FDSN get_stations failed: "
NoStationsMsg == "No SN.IS* stations found from IRIS query."

Fns(cs) == [i \in 1..Len(cs) |-> cs[i].fn]

\* C3: with a manual region, the region of the run, of every topography load and
\* of every renderer call that takes a region is exactly the supplied one, and
\* compute_region_from_points is never called.
C3_OverrideUnchanged ==
    MANUAL_REGION # NoRegion =>
        /\ region \in {NoRegion, ManualBox}
        /\ pc \notin {"client", "query", "check", "group", "region", "aborted"}
              => region = ManualBox
        /\ region_args = <<>>
        /\ \A i \in 1..Len(attempts) : attempts[i].region = ManualBox
        /\ grid # NoGrid => grid.region = ManualBox
        /\ \A i \in 1..Len(calls) :
              calls[i].fn \in {"grdimage", "basemap"} => calls[i].region = ManualBox

\* a finished run under the override whose array IS4 lies east of the override
C3_Witness ==
    /\ MANUAL_REGION = ManualBox
    /\ pc = "done"
    /\ \E i \in 1..Len(infra) : RatLt(ManualBox[2], infra[i].lon)
    /\ \E i \in 1..Len(calls) : calls[i] = Call("grdimage", ManualBox)

\* C4: the resolutions are attempted in the order of TOPO_PREF, each at most once;
\* only the last attempt made can have succeeded, the grid is that attempt's, and
\* the aggregate error is never raised once an attempt succeeded.
C4_FirstSuccessWins ==
    /\ Len(attempts) <= Len(TOPO_PREF)
    /\ \A i \in 1..Len(attempts) : attempts[i].res = TOPO_PREF[i]
    /\ \A i \in 1..Len(attempts) : attempts[i].ok => i = Len(attempts)
    /\ grid # NoGrid <=> \E i \in 1..Len(attempts) : attempts[i].ok
    /\ grid # NoGrid => grid.res = attempts[Len(attempts)].res
    /\ grid # NoGrid => caught.msg # AggregateMsg
    /\ grid # NoGrid =>
          \A i \in 1..Len(warnings) : warnings[i].e.msg # AggregateMsg

\* 01s and 03s fail, 15s succeeds: the grid is that of 15s
C4_Witness ==
    /\ [i \in 1..Len(attempts) |-> attempts[i].ok] = <<FALSE, FALSE, TRUE>>
    /\ grid = [res |-> "15s", region |-> region]
    /\ pc = "done"

AllTopoFailed ==
    /\ Len(attempts) = Len(TOPO_PREF)
    /\ \A i \in 1..Len(attempts) : ~attempts[i].ok

\* C5: the aggregate error is raised only after every resolution was attempted
\* once and failed, and it carries the failure of the last resolution attempted.
C5_AggregateCarriesLast ==
    /\ (pc = "topo" /\ res_idx > Len(TOPO_PREF)) => AllTopoFailed
    /\ caught.msg = AggregateMsg =>
          /\ AllTopoFailed
          /\ \A i \in 1..Len(attempts) : attempts[i].res = TOPO_PREF[i]
          /\ caught.type = "RuntimeError"
          /\ caught.arg = Str(LoadError(TOPO_PREF[Len(TOPO_PREF)]))
          /\ caught.arg # Str(LoadError(TOPO_PREF[1]))
          /\ caught.arg # Str(NoExc)

C5_Witness ==
    /\ pc = "fallback"
    /\ caught = Exc("RuntimeError", AggregateMsg, "15s")
    /\ Len(attempts) = 3

\* the renderer calls of a complete run with the coastline background
CoastRun ==
    <<"basemap", "coast">> \o [i \in 1..(Len(infra) + 1) |-> "plot"]
        \o <<"basemap_scale", "legend", "show">>
        \o (IF SAVE THEN <<"savefig">> ELSE <<>>)

IsPrefix(s, t) == Len(s) <= Len(t) /\ s = SubSeq(t, 1, Len(s))

\* C6: when all resolutions fail the run goes on: one warning, carrying the
\* aggregate error, the coastline background and no raster, then the symbols,
\* scale bar, legend and display (and the export when enabled); the aggregate
\* error never leaves main().
C6_DegradesToCoast ==
    AllTopoFailed =>
        /\ error.msg # AggregateMsg
        /\ pc = "aborted" => render_failures # <<>> /\ error.msg = "figure"
        /\ pc \notin {"topo", "fallback"} =>
              /\ Len(warnings) = 1
              /\ warnings[1].e = Exc("RuntimeError", AggregateMsg, "15s")
        /\ IsPrefix(Fns(calls), CoastRun)
        /\ pc = "done" => Fns(calls) = CoastRun

C6_Witness ==
    /\ AllTopoFailed
    /\ pc = "done"
    /\ SAVE
    /\ Len(warnings) = 1
    /\ Len(infra) = 2

QueryReturnedEmpty ==
    /\ pc \notin {"client", "query"}
    /\ upstream_failures = <<>>
    /\ infra_raw = <<>>

\* C7: a query that returns no station ends the run with the "no stations" error
\* before grouping, region selection, topography or rendering; and no region is
\* ever computed from zero points.
C7_NoStationsAborts ==
    /\ QueryReturnedEmpty =>
          /\ pc \in {"check", "aborted"}
          /\ pc = "aborted" => error = Exc("RuntimeError", NoStationsMsg, "")
          /\ groups = <<>> /\ infra = <<>>
          /\ region = NoRegion /\ region_args = <<>>
          /\ attempts = <<>> /\ calls = <<>> /\ warnings = <<>>
    /\ \A i \in 1..Len(region_args) :
          Len(region_args[i].lats) >= 1 /\ Len(region_args[i].lons) >= 1

C7_Witness ==
    /\ QueryReturnedEmpty
    /\ pc = "aborted"
    /\ error.msg = NoStationsMsg
    /\ MANUAL_REGION = NoRegion

\* C9 as stated: every failure of the metadata source ends the run at once with
\* the wrapped query-failure error, before any later step.
C9_UpstreamFailureWrapped ==
    upstream_failures # <<>> =>
        /\ Len(upstream_failures) = 1
        /\ pc = "aborted"
        /\ error.type = "RuntimeError"
        /\ error.msg = QueryFailedMsg
        /\ infra = <<>> /\ region = NoRegion /\ attempts = <<>> /\ calls = <<>>

\* C10 as stated: a renderer failure always ends the run (once the exception has
\* propagated), and the warning with the coastline fallback is only ever
\* triggered by the aggregate topography error.
C10_RenderFailureFatal ==
    /\ (render_failures # <<>> /\ pc # "fallback") =>
          pc = "aborted" /\ error.msg = "figure"
    /\ \A i \in 1..Len(warnings) : warnings[i].e.msg = AggregateMsg

=============================================================================
